---- MODULE Spec2Model ----
(***************************************************************************)
(* State-machine model of the DataQ analyzer backend's real-time core:     *)
(*   - the path-event WebSocket endpoint (/ws/paths): connection registry, *)
(*     subscribe / unsubscribe handlers, broadcast dispatcher, and the     *)
(*     MQTT ingestion handler that feeds it;                               *)
(*   - the video WebSocket endpoint (/ws/video): per-connection video      *)
(*     sessions over the activeStreams map;                                *)
(*   - the client-side filter matchesFilters as a pure function.           *)
(* Every await of the JavaScript source is a point where other handlers    *)
(* may run, so a handler with an await is split into one action per        *)
(* synchronous stretch.                                                    *)
(***************************************************************************)
EXTENDS Integers, Sequences, FiniteSets, TLC

VARIABLES
    \* ---- device directory and user store (MongoDB collections) ----
    cameraEnabled,   \* Camera.enabled, per serial number
    userAuth,        \* User.authorizedCameras as stored in the database, per user
    \* ---- path endpoint ----
    wsState,         \* readyState of each path WebSocket: "unused" | "open" | "closed"
    connections,     \* manager.js `connections` Map, in insertion order
    nextConn,        \* number of path connections accepted so far
    pendingSubs,     \* handleSubscribe calls suspended at `await Camera.find`
    unsubbed,        \* history: serials acknowledged as unsubscribed since the last subscribe message
    last,            \* observable outcome of the most recent handler
    \* ---- video endpoint ----
    vws,             \* readyState of each video WebSocket
    sessions,        \* every handleRequestVideo call that passed validation
    activeStreams,   \* videoHandlers `activeStreams` Map: connection -> session or NoSession
    outbox,          \* messages written to each video WebSocket, in order
    \* ---- the pure functions (matchesFilters, shouldSavePath) on bounded inputs ----
    fEvent, fFilters, fResult,
    \* ---- ingestion transport ----
    arrived,         \* number of path messages the MQTT client has emitted so far
    inflight,        \* handleMQTTMessage calls suspended at an await
    delivered        \* history: per path connection, the events handed to ws.send, in order

pathVars == <<cameraEnabled, userAuth, wsState, connections, nextConn, pendingSubs,
              unsubbed, last>>
videoVars == <<vws, sessions, activeStreams, outbox>>
filterVars == <<fEvent, fFilters, fResult>>
mqttVars == <<arrived, inflight, delivered>>
vars == <<pathVars, videoVars, filterVars, mqttVars>>

----------------------------------------------------------------------------
(* Bounds of the model *)

MaxConns == 2        \* path connections accepted in one run of the dispatcher specification
MaxSoloConns == 1    \* path connections accepted in one run of the single-client specifications
MaxPending == 1      \* subscribes suspended at the directory lookup at once
MaxVConns == 2       \* video connections accepted in one run
MaxSessions == 2     \* video requests that pass validation in one run
MaxFrames == 2       \* blocks the transcode pipeline produces for one clip
MaxInvalid == 1      \* invalid video requests answered per connection
MaxArrivals == 3     \* path messages received from the ingestion transport in one run
MaxAge == 3          \* largest age tried on shouldSavePath
MaxKin == 2          \* largest age, dwell, displacement component and threshold tried on matchesFilters

----------------------------------------------------------------------------
(* Device directory *)

Serials == {"A", "B"}
UnknownSerial == "X"

\* The Camera collection: _id and serialNumber (unique) of every document.
CameraDocs == << [id |-> "idA", serialNumber |-> "A"],
                 [id |-> "idB", serialNumber |-> "B"] >>

CamIds == {CameraDocs[i].id : i \in 1..Len(CameraDocs)}

SeqToSet(s) == {s[i] : i \in 1..Len(s)}

Users == {"admin", "u1"}
Role(u) == IF u = "admin" THEN "admin" ELSE "user"

----------------------------------------------------------------------------
(* Client-side filter: filters.js matchesFilters *)

Undef == -1          \* a threshold the client did not supply (undefined / null)

\* filters.classes: absent, an array of class names, or an object that has a
\* positive `length` but no `includes` method (e.g. {"length": 1}).
ClassesUndef == [kind |-> "undef", items |-> <<>>]
ClassesList(items) == [kind |-> "list", items |-> items]
ClassesObject == [kind |-> "object", items |-> <<>>]

NoFilters == [classes |-> ClassesUndef, minAge |-> Undef,
              minDistance |-> Undef, minDwell |-> Undef]

\* Object.keys(filters).length === 0
FiltersEmpty(f) ==
    /\ f.classes.kind = "undef"
    /\ f.minAge = Undef
    /\ f.minDistance = Undef
    /\ f.minDwell = Undef

\* `filters.classes && filters.classes.length > 0`
ClassesRestrict(f) ==
    \/ f.classes.kind = "list" /\ Len(f.classes.items) > 0
    \/ f.classes.kind = "object"

\* `filters.classes.includes(...)` raises a TypeError when classes is not an array.
MatchesFiltersThrows(f) ==
    /\ ~FiltersEmpty(f)
    /\ ClassesRestrict(f)
    /\ f.classes.kind = "object"

\* JavaScript `!x` for a number
Falsy(x) == x = 0

ClassCheck(e, f) ==
    ClassesRestrict(f) => e.class \in SeqToSet(f.classes.items)

AgeCheck(e, f) ==
    f.minAge # Undef => ~(Falsy(e.age) \/ e.age < f.minAge)

\* Math.sqrt(dx*dx + dy*dy) < minDistance, for a threshold >= 0
DistanceBelow(e, m) == e.dx * e.dx + e.dy * e.dy < m * m

DistanceCheck(e, f) ==
    f.minDistance # Undef =>
        /\ ~(Falsy(e.dx) \/ Falsy(e.dy))
        /\ ~DistanceBelow(e, f.minDistance)

DwellCheck(e, f) ==
    f.minDwell # Undef => ~(Falsy(e.dwell) \/ e.dwell < f.minDwell)

\* The value matchesFilters returns when it does not throw.
MatchesFilters(e, f) ==
    IF FiltersEmpty(f) THEN TRUE
    ELSE /\ ClassCheck(e, f)
         /\ AgeCheck(e, f)
         /\ DistanceCheck(e, f)
         /\ DwellCheck(e, f)

----------------------------------------------------------------------------
(* Connection registry: manager.js *)

NoSubscriptions == [cameras |-> <<>>, filters |-> NoFilters]

RegisteredIds == {connections[i].id : i \in 1..Len(connections)}

\* connections.get(connectionId); only used for a registered id
GetConnection(id) ==
    CHOOSE c \in SeqToSet(connections) : c.id = id

\* connections.set(connectionId, {...}) for a fresh id: appended in insertion order
AddConnection(id, user) ==
    Append(connections, [id |-> id, user |-> user, subscriptions |-> NoSubscriptions])

\* A delete that takes the oldest entry when the id is not registered.
RemoveConnectionOrOldest(id) ==
    IF id \in RegisteredIds
    THEN SelectSeq(connections, LAMBDA c : c.id # id)
    ELSE SubSeq(connections, 2, Len(connections))

\* connections.delete(connectionId): a no-op for an id that is not registered
RemoveConnection(id) ==
    SelectSeq(connections, LAMBDA c : c.id # id)

\* connections.get(connectionId) for any id: undefined when it is not registered
Absent == [id |-> 0]

LookupConnection(id) ==
    IF id \in RegisteredIds THEN GetConnection(id) ELSE Absent

\* An update that creates the entry when the connection is not registered.
UpdateSubscriptionsUpsert(id, cameras, filters) ==
    IF id \in RegisteredIds
    THEN [i \in 1..Len(connections) |->
             IF connections[i].id = id
             THEN [connections[i] EXCEPT !.subscriptions =
                                            [cameras |-> cameras, filters |-> filters]]
             ELSE connections[i]]
    ELSE Append(connections,
                [id |-> id,
                 user |-> [id |-> "admin", role |-> "admin", authorizedCameras |-> {}],
                 subscriptions |-> [cameras |-> cameras, filters |-> filters]])

\* connection.subscriptions = { cameras, filters }, when the connection exists
UpdateSubscriptions(id, cameras, filters) ==
    [i \in 1..Len(connections) |->
        IF connections[i].id = id
        THEN [connections[i] EXCEPT !.subscriptions =
                                       [cameras |-> cameras, filters |-> filters]]
        ELSE connections[i]]

----------------------------------------------------------------------------
(* Subscription authorizer: handlers.js handleSubscribe *)

SerialLen == 12      \* characters of a serial number such as "B8A44F3024BB"

\* message.cameras: an array of serials, or (malformed) a single string or a number
ReqList(items) == [kind |-> "list", items |-> items]
ReqString(serial) == [kind |-> "string", items |-> <<serial>>]
ReqNumber == [kind |-> "number", items |-> <<>>]

\* requestedCameras.length; a number has no length (undefined), which is neither
\* === 0 nor > 0 nor greater than any array length: -1 stands for it.
ReqLength(req) ==
    CASE req.kind = "list" -> Len(req.items)
      [] req.kind = "string" -> SerialLen
      [] OTHER -> -1

\* The serials matched by { $in: requestedCameras } (a non-array is treated as
\* a one-element array; a number matches no serial).
ReqSerials(req) == SeqToSet(req.items)

\* A lookup that forgets `enabled: true`.
CameraFindAnyState(byId, ids, bySerial, serials) ==
    LET hit(d) == /\ (byId => d.id \in ids)
                  /\ (bySerial => d.serialNumber \in serials)
        docs == SelectSeq(CameraDocs, hit)
    IN [i \in 1..Len(docs) |-> docs[i].serialNumber]

\* Camera.find({_id: {$in: ids}, serialNumber: {$in: serials}, enabled: true})
\*   .select('serialNumber').lean()  followed by  .map(c => c.serialNumber).
\* byId / bySerial say whether the query constrains that field.
CameraFind(byId, ids, bySerial, serials) ==
    LET hit(d) == /\ cameraEnabled[d.serialNumber]
                  /\ (byId => d.id \in ids)
                  /\ (bySerial => d.serialNumber \in serials)
        docs == SelectSeq(CameraDocs, hit)
    IN [i \in 1..Len(docs) |-> docs[i].serialNumber]

\* The four lookups of handleSubscribe
AuthorizedCameras(user, req) ==
    IF ReqLength(req) = 0
    THEN IF user.role = "admin"
         THEN CameraFind(FALSE, {}, FALSE, {})
         ELSE CameraFind(TRUE, user.authorizedCameras, FALSE, {})
    ELSE IF user.role = "admin"
         THEN CameraFind(FALSE, {}, TRUE, ReqSerials(req))
         ELSE CameraFind(TRUE, user.authorizedCameras, TRUE, ReqSerials(req))

\* `requestedCameras.length > 0 && authorizedCameras.length < requestedCameras.length`
ReportsUnauthorized(req, authorized) ==
    ReqLength(req) > 0 /\ Len(authorized) < ReqLength(req)

\* requestedCameras.filter(c => !authorizedCameras.includes(c))
UnauthorizedCameras(req, authorized) ==
    SelectSeq(req.items, LAMBDA c : c \notin SeqToSet(authorized))

\* The messages handleSubscribe writes once the lookup has answered.
SubscribeReplies(req, authorized) ==
    << [type |-> "subscribed", code |-> "", cameras |-> authorized] >> \o
    ( IF ~ReportsUnauthorized(req, authorized) THEN <<>>
      ELSE IF req.kind = "list"
           THEN << [type |-> "error", code |-> "UNAUTHORIZED",
                    cameras |-> UnauthorizedCameras(req, authorized)] >>
           \* a string has no .filter: TypeError, caught by handleSubscribe
           ELSE << [type |-> "error", code |-> "INTERNAL_ERROR", cameras |-> <<>>] >> )

----------------------------------------------------------------------------
(* Ingestion filter: mqtt/client.js shouldSavePath *)

DefaultObjectTypes == << "Human", "Car", "Truck", "Bus", "Bike", "LicensePlate",
                         "Head", "Bag", "Vehicle", "Animal", "Other" >>
DefaultMinAge == 2
DefaultMinDistance == 20

\* camera.filters: objectTypes is absent ("unset") or an array; thresholds may be Undef
ObjectTypesUnset == [kind |-> "unset", items |-> <<>>]
ObjectTypesList(items) == [kind |-> "list", items |-> items]

\* (Math.sqrt(d2) / 1414.21) * 100 < m, for integers d2 >= 0 and m, in exact
\* arithmetic that stays within 32 bits: with T = m * 141421 = 10000*q + r the test
\* is d2 * 10^8 < T^2, i.e. (d2 - q^2) * 10^8 < 2*10^4*q*r + r^2.
PercentBelow(d2, m) ==
    IF m <= 0 THEN FALSE
    ELSE LET T == m * 141421
             q == T \div 10000
             r == T % 10000
             D == d2 - q * q
         IN IF D < 0 THEN TRUE
            ELSE IF D >= 2 * q + 1 THEN FALSE
            ELSE LET lhs == D * 10000 - 2 * q * r
                 IN IF lhs < 0 THEN TRUE
                    ELSE IF lhs >= 10000 THEN FALSE
                    ELSE lhs * 10000 < r * r

ShouldSavePath(e, filters) ==
    LET objectTypes == IF filters.objectTypes.kind = "unset"
                       THEN DefaultObjectTypes ELSE filters.objectTypes.items
        minAge == IF filters.minAge # Undef THEN filters.minAge ELSE DefaultMinAge
        minDistance == IF filters.minDistance # Undef
                       THEN filters.minDistance ELSE DefaultMinDistance
    IN /\ (Len(objectTypes) > 0 => e.class \in SeqToSet(objectTypes))
       /\ ~(e.age < minAge)
       /\ ~PercentBelow(e.dx * e.dx + e.dy * e.dy, minDistance)

\* The per-device acceptance filters stored in the directory.
CameraFilters(serial) ==
    IF serial = "A"
    THEN [objectTypes |-> ObjectTypesList(<<"Human">>), minAge |-> 2, minDistance |-> 20]
    ELSE [objectTypes |-> ObjectTypesUnset, minAge |-> Undef, minDistance |-> Undef]

----------------------------------------------------------------------------
(* Broadcast dispatcher: broadcaster.js *)

NoCameraId == "none"     \* the event carries no cameraId field

\* `ws.readyState !== 1` => skip
Writable(conn) == wsState[conn.id] = "open"

\* A device check that also looks at which connection is asking.
DeviceCheckByConnection(conn, e) ==
    IF Len(conn.subscriptions.cameras) > 0
    THEN e.serial \in SeqToSet(conn.subscriptions.cameras) /\ conn.id = 1
    ELSE IF conn.user.role # "admin"
         THEN \E camId \in conn.user.authorizedCameras : camId = e.cameraId
         ELSE TRUE

\* The camera-subscription branch of shouldSendToClient
DeviceCheck(conn, e) ==
    IF Len(conn.subscriptions.cameras) > 0
    THEN e.serial \in SeqToSet(conn.subscriptions.cameras)
    ELSE IF conn.user.role # "admin"
         THEN \E camId \in conn.user.authorizedCameras : camId = e.cameraId
         ELSE TRUE

\* shouldSendToClient raises when it gets as far as matchesFilters and that raises
ShouldSendThrows(conn, e) ==
    /\ Writable(conn)
    /\ DeviceCheck(conn, e)
    /\ MatchesFiltersThrows(conn.subscriptions.filters)

ShouldSendToClient(conn, e) ==
    /\ Writable(conn)
    /\ DeviceCheck(conn, e)
    /\ MatchesFilters(e, conn.subscriptions.filters)

NoOutcome == [sent |-> {}, failed |-> {}, thrown |-> FALSE]

\* A send failure that escapes the loop: the connections after it are not served.
OnSendFailureAborts(rest, id) == [NoOutcome EXCEPT !.failed = {id}, !.thrown = TRUE]

\* The catch block around connection.ws.send: the failure is logged and the loop goes on.
OnSendFailure(rest, id) == [rest EXCEPT !.failed = @ \cup {id}]

\* The for-loop of broadcastPathEvent from position i of the snapshot; `failing`
\* are the connections whose ws.send raises. An exception of shouldSendToClient is
\* not caught inside the loop and ends it.
RECURSIVE BroadcastLoop(_, _, _, _)
BroadcastLoop(snapshot, e, failing, i) ==
    IF i > Len(snapshot) THEN NoOutcome
    ELSE LET conn == snapshot[i] IN
         IF ShouldSendThrows(conn, e) THEN [NoOutcome EXCEPT !.thrown = TRUE]
         ELSE LET rest == BroadcastLoop(snapshot, e, failing, i + 1) IN
              IF ~ShouldSendToClient(conn, e) THEN rest
              ELSE IF conn.id \in failing THEN OnSendFailure(rest, conn.id)
              ELSE [rest EXCEPT !.sent = @ \cup {conn.id}]

\* broadcastPathEvent(pathEvent) over getAllConnections()
BroadcastPathEvent(e, failing) == BroadcastLoop(connections, e, failing, 1)

----------------------------------------------------------------------------
(* Inputs of the path endpoint *)

ConnIds == 1..MaxConns

\* authorizedCameras values an administrator may store for the standard user
AuthSets == SUBSET CamIds

\* `cameras` of a subscribe message: arrays (with a repeated and an unknown
\* serial among them) and the malformed shapes
RequestedCameras ==
    { ReqList(<<>>), ReqList(<<"A">>), ReqList(<<"B">>), ReqList(<<"A", "B">>),
      ReqList(<<"A", "A">>), ReqList(<<"A", UnknownSerial>>),
      ReqString("A"), ReqNumber }

\* The subscribe messages tried where several clients are connected
DispatchCameras == { ReqList(<<"A">>), ReqNumber }

\* `filters` of a subscribe message
RequestedFilters ==
    { NoFilters,
      [NoFilters EXCEPT !.classes = ClassesList(<<"Human">>)],
      [NoFilters EXCEPT !.classes = ClassesObject] }

\* `cameras` of an unsubscribe message
RemovedCameras == { <<"A">>, <<"B">>, <<"A", "B">> }

\* Path events arriving from the ingestion transport. The payload is stored
\* as received, so a cameraId field is present only if the device sent one.
Kinematics == [age |-> 5, dwell |-> 3, dx |-> 300, dy |-> 300]

PathEvent(serial, class, cameraId) ==
    [serial |-> serial, class |-> class, cameraId |-> cameraId,
     age |-> Kinematics.age, dwell |-> Kinematics.dwell,
     dx |-> Kinematics.dx, dy |-> Kinematics.dy]

PathEvents ==
    { PathEvent("A", "Human", NoCameraId), PathEvent("A", "Car", NoCameraId),
      PathEvent("B", "Human", NoCameraId), PathEvent("B", "Car", NoCameraId),
      PathEvent("A", "Human", "idA"), PathEvent(UnknownSerial, "Human", NoCameraId) }

\* The events published where several clients are connected
DispatchEvents ==
    { PathEvent("A", "Human", NoCameraId), PathEvent("A", "Car", NoCameraId),
      PathEvent("B", "Car", NoCameraId),
      PathEvent("A", "Human", "idA"), PathEvent(UnknownSerial, "Human", NoCameraId) }

NoUnsubbed == [c \in ConnIds |-> {}]

Quiet == [kind |-> "none"]

----------------------------------------------------------------------------
(* Actions of the path endpoint *)

\* A REST update of the standard user's authorizedCameras (authService.updateUser).
UpdateUser(cams) ==
    /\ cams # userAuth["u1"]
    /\ userAuth' = [userAuth EXCEPT !["u1"] = cams]
    /\ last' = [kind |-> "updateUser"]
    /\ UNCHANGED <<cameraEnabled, wsState, connections, nextConn, pendingSubs, unsubbed>>
    /\ UNCHANGED <<videoVars, filterVars, mqttVars>>

\* A REST update of Camera.enabled.
SetCameraEnabled(serial, enabled) ==
    /\ cameraEnabled[serial] # enabled
    /\ cameraEnabled' = [cameraEnabled EXCEPT ![serial] = enabled]
    /\ last' = [kind |-> "updateCamera"]
    /\ UNCHANGED <<userAuth, wsState, connections, nextConn, pendingSubs, unsubbed>>
    /\ UNCHANGED <<videoVars, filterVars, mqttVars>>

\* authenticateWebSocket + handlePathConnection: the user document is read once,
\* at the handshake, and stored in the connection.
Handshake(u, limit) ==
    /\ nextConn < limit
    /\ LET id == nextConn + 1
           user == [id |-> u, role |-> Role(u), authorizedCameras |-> userAuth[u]]
       IN /\ connections' = AddConnection(id, user)
          /\ wsState' = [wsState EXCEPT ![id] = "open"]
          /\ nextConn' = id
          /\ last' = [kind |-> "connected", conn |-> id]
    /\ UNCHANGED <<cameraEnabled, userAuth, pendingSubs, unsubbed>>
    /\ UNCHANGED <<videoVars, filterVars, mqttVars>>

\* Why authenticateWebSocket throws: no token in the query string, verifyToken
\* rejects the token, the user document is gone, or the account is disabled.
RejectReasons == {"No token provided", "invalid token", "User not found",
                  "Account is disabled"}

\* The catch block of the upgrade handler: what the client gets for a failure
RejectStatus(reason) == "HTTP/1.1 401 Unauthorized"

\* An upgrade request whose authentication fails: the status line is written and
\* the socket destroyed; handleUpgrade is never reached.
HandshakeRejected(reason) ==
    /\ last' = [kind |-> "rejected", reason |-> reason, status |-> RejectStatus(reason),
                before |-> connections]
    /\ UNCHANGED <<cameraEnabled, userAuth, wsState, connections, nextConn,
                   pendingSubs, unsubbed>>
    /\ UNCHANGED <<videoVars, filterVars, mqttVars>>

\* handleSubscribe up to `await Camera.find(...)`.
SubscribeBegin(id, req, filters) ==
    /\ wsState[id] = "open"
    /\ id \in RegisteredIds
    /\ Cardinality(pendingSubs) < MaxPending
    /\ pendingSubs' = pendingSubs \cup
           { [conn |-> id, user |-> GetConnection(id).user, requested |-> req,
              filters |-> filters, authAtReceipt |-> userAuth[GetConnection(id).user.id]] }
    /\ unsubbed' = [unsubbed EXCEPT ![id] = {}]
    /\ last' = Quiet
    /\ UNCHANGED <<cameraEnabled, userAuth, wsState, connections, nextConn>>
    /\ UNCHANGED <<videoVars, filterVars, mqttVars>>

\* The lookup answers and handleSubscribe runs to its end.
SubscribeComplete(p) ==
    /\ p \in pendingSubs
    /\ LET authorized == AuthorizedCameras(p.user, p.requested)
       IN /\ connections' = UpdateSubscriptions(p.conn, authorized, p.filters)
          /\ last' = [kind |-> "subscribe", conn |-> p.conn, user |-> p.user,
                      requested |-> p.requested, filters |-> p.filters,
                      authorized |-> authorized,
                      authAtReceipt |-> p.authAtReceipt,
                      msgs |-> IF wsState[p.conn] = "open"
                               THEN SubscribeReplies(p.requested, authorized)
                               ELSE <<>>]
    /\ pendingSubs' = pendingSubs \ {p}
    /\ UNCHANGED <<cameraEnabled, userAuth, wsState, nextConn, unsubbed>>
    /\ UNCHANGED <<videoVars, filterVars, mqttVars>>

\* The lookup rejects (database error): the catch block of handleSubscribe.
SubscribeFail(p) ==
    /\ p \in pendingSubs
    /\ pendingSubs' = pendingSubs \ {p}
    /\ last' = [kind |-> "subscribeFailed", conn |-> p.conn,
                msgs |-> IF wsState[p.conn] = "open"
                         THEN << [type |-> "error", code |-> "INTERNAL_ERROR",
                                  cameras |-> <<>>] >>
                         ELSE <<>>]
    /\ UNCHANGED <<cameraEnabled, userAuth, wsState, connections, nextConn, unsubbed>>
    /\ UNCHANGED <<videoVars, filterVars, mqttVars>>

\* handleUnsubscribe (no await: one step).
Unsubscribe(id, cams) ==
    /\ wsState[id] = "open"
    /\ id \in RegisteredIds
    /\ LET conn == GetConnection(id)
           newCameras == SelectSeq(conn.subscriptions.cameras,
                                   LAMBDA c : c \notin SeqToSet(cams))
       IN connections' = UpdateSubscriptions(id, newCameras, conn.subscriptions.filters)
    /\ unsubbed' = [unsubbed EXCEPT ![id] = @ \cup SeqToSet(cams)]
    /\ last' = [kind |-> "unsubscribe", conn |-> id,
                msgs |-> << [type |-> "unsubscribed", code |-> "", cameras |-> cams] >>]
    /\ UNCHANGED <<cameraEnabled, userAuth, wsState, nextConn, pendingSubs>>
    /\ UNCHANGED <<videoVars, filterVars, mqttVars>>

\* handleMessage on invalid JSON or an unknown message type: an error reply only.
BadMessage(id) ==
    /\ wsState[id] = "open"
    /\ last' = [kind |-> "badMessage", conn |-> id,
                msgs |-> << [type |-> "error", code |-> "INVALID_REQUEST",
                             cameras |-> <<>>] >>]
    /\ UNCHANGED <<cameraEnabled, userAuth, wsState, connections, nextConn,
                   pendingSubs, unsubbed>>
    /\ UNCHANGED <<videoVars, filterVars, mqttVars>>

\* The socket leaves the OPEN state; its 'close' event has not run yet.
WsClosing(id) ==
    /\ wsState[id] = "open"
    /\ wsState' = [wsState EXCEPT ![id] = "closed"]
    /\ last' = Quiet
    /\ UNCHANGED <<cameraEnabled, userAuth, connections, nextConn, pendingSubs, unsubbed>>
    /\ UNCHANGED <<videoVars, filterVars, mqttVars>>

\* ws.on('close'): removeConnection(connectionId).
CloseEvent(id) ==
    /\ wsState[id] = "closed"
    /\ id \in RegisteredIds
    /\ connections' = RemoveConnection(id)
    /\ last' = Quiet
    /\ UNCHANGED <<cameraEnabled, userAuth, wsState, nextConn, pendingSubs, unsubbed>>
    /\ UNCHANGED <<videoVars, filterVars, mqttVars>>

\* removeConnection(id) called with any id, registered or not; returns whether an
\* entry was deleted.
RegistryRemove(id) ==
    /\ connections' = RemoveConnection(id)
    /\ last' = [kind |-> "remove", id |-> id, removed |-> id \in RegisteredIds,
                before |-> connections]
    /\ UNCHANGED <<cameraEnabled, userAuth, wsState, nextConn, pendingSubs, unsubbed>>
    /\ UNCHANGED <<videoVars, filterVars, mqttVars>>

\* getConnection(id) called with any id, registered or not.
RegistryGet(id) ==
    /\ last' = [kind |-> "get", id |-> id, result |-> LookupConnection(id),
                before |-> connections]
    /\ UNCHANGED <<cameraEnabled, userAuth, wsState, connections, nextConn,
                   pendingSubs, unsubbed>>
    /\ UNCHANGED <<videoVars, filterVars, mqttVars>>

\* An ingestion that forwards every event, whatever the directory and the filter say.
IngestAcceptsAll(e) == TRUE

\* Camera.findOne({ serialNumber }) finds the device and shouldSavePath accepts the event
IngestAccepts(e) ==
    /\ e.serial \in Serials
    /\ ShouldSavePath(e, CameraFilters(e.serial))

\* handleMQTTMessage for a path message: directory lookup, ingestion filter,
\* savePathEvent, broadcast. `saveOk` is whether savePathEvent resolves,
\* `failing` the connections whose ws.send raises during the fan-out.
HandleMQTTMessage(e, saveOk, failing) ==
    /\ LET known == e.serial \in Serials
           accepted == IngestAccepts(e)
           saved == accepted /\ saveOk
           outcome == IF saved THEN BroadcastPathEvent(e, failing) ELSE NoOutcome
       IN last' = [kind |-> "publish", event |-> e, known |-> known,
                   accepted |-> accepted, saved |-> saved, broadcast |-> saved,
                   sent |-> outcome.sent, failed |-> outcome.failed,
                   thrown |-> outcome.thrown]
    /\ UNCHANGED <<cameraEnabled, userAuth, wsState, connections, nextConn,
                   pendingSubs, unsubbed>>
    /\ UNCHANGED <<videoVars, filterVars, mqttVars>>

----------------------------------------------------------------------------
(* Ingestion handler with its awaits: mqtt/client.js handleMQTTMessage *)

\* client.on('message', handleMQTTMessage): the handler starts for every message
\* as it arrives and runs up to `await Camera.findOne(...)`; the listener does not
\* wait for the promise of the previous call.
MqttArrive(e) ==
    /\ arrived < MaxArrivals
    /\ arrived' = arrived + 1
    /\ inflight' = inflight \cup {[seq |-> arrived + 1, event |-> e, stage |-> "lookup"]}
    /\ UNCHANGED delivered
    /\ UNCHANGED <<pathVars, videoVars, filterVars>>

\* The directory lookup of one call answers: an unknown device or an event the
\* ingestion filter rejects ends the call; otherwise the call goes on to
\* `await savePathEvent(...)`.
MqttLookupDone(m) ==
    /\ m \in inflight
    /\ m.stage = "lookup"
    /\ inflight' = IF IngestAccepts(m.event)
                   THEN (inflight \ {m}) \cup {[m EXCEPT !.stage = "saving"]}
                   ELSE inflight \ {m}
    /\ UNCHANGED <<arrived, delivered>>
    /\ UNCHANGED <<pathVars, videoVars, filterVars>>

\* savePathEvent of one call resolves and the event is broadcast.
MqttSaved(m) ==
    /\ m \in inflight
    /\ m.stage = "saving"
    /\ inflight' = inflight \ {m}
    /\ LET outcome == BroadcastPathEvent(m.event, {})
       IN /\ delivered' = [c \in ConnIds |->
                              IF c \in outcome.sent
                              THEN Append(delivered[c],
                                          [seq |-> m.seq, serial |-> m.event.serial])
                              ELSE delivered[c]]
          /\ last' = [kind |-> "publish", event |-> m.event, known |-> TRUE,
                      accepted |-> TRUE, saved |-> TRUE, broadcast |-> TRUE,
                      sent |-> outcome.sent, failed |-> outcome.failed,
                      thrown |-> outcome.thrown]
    /\ UNCHANGED arrived
    /\ UNCHANGED <<cameraEnabled, userAuth, wsState, connections, nextConn,
                   pendingSubs, unsubbed>>
    /\ UNCHANGED <<videoVars, filterVars>>

\* savePathEvent of one call rejects: the catch block logs, nothing is broadcast.
MqttSaveFailed(m) ==
    /\ m \in inflight
    /\ m.stage = "saving"
    /\ inflight' = inflight \ {m}
    /\ UNCHANGED <<arrived, delivered>>
    /\ UNCHANGED <<pathVars, videoVars, filterVars>>

----------------------------------------------------------------------------
(* Video endpoint: websocket/server.js and services/videoService.js *)

VConnIds == 1..MaxVConns
NoSession == 0

\* Error messages getVideoClip rejects with
ServiceErrors == { "VIDEO_NOT_FOUND", "RECORDING_SERVER_ERROR",
                   "RECORDING_SERVER_UNREACHABLE", "REQUEST_TIMEOUT",
                   "Camera not found", "Video playback is not enabled" }

\* The catch block of handleRequestVideo: service error -> client error code
ErrorCode(msg) ==
    CASE msg = "VIDEO_NOT_FOUND" -> "VIDEO_NOT_FOUND"
      [] msg = "RECORDING_SERVER_ERROR" -> "RECORDING_SERVER_ERROR"
      [] msg = "Camera not found" -> "CAMERA_NOT_FOUND"
      [] msg = "Video playback is not enabled" -> "PLAYBACK_DISABLED"
      [] OTHER -> "UNKNOWN_ERROR"

\* A message on a video socket. `session` and `afterClose` are history: the session
\* that wrote it, and whether a close_video or the connection's close had already
\* been handled for that session. `text` is the error text, `seq` the number of the
\* transcoded block a binary frame carries.
Msg(type, sid, code) ==
    [type |-> type, session |-> sid, code |-> code, text |-> "", seq |-> 0,
     afterClose |-> FALSE]

\* A socket that delivers the newest message ahead of the older ones.
VSendFront(box, c, m) ==
    IF vws[c] = "open" THEN [box EXCEPT ![c] = <<m>> \o @] ELSE box

\* ws.send / sendError on a video socket: nothing reaches a socket that is not OPEN
VSend(box, c, m) ==
    IF vws[c] = "open" THEN [box EXCEPT ![c] = Append(@, m)] ELSE box

SessionIds == 1..Len(sessions)

\* state: where the request handler / the output stream of the session is;
\* proc: the ffmpeg child process; temp: the temporary input file.
NewSession(c) ==
    [conn |-> c, state |-> "awaiting", frames |-> 0, proc |-> "none",
     temp |-> "none", closed |-> FALSE]

Live(sid) == sessions[sid].state \in {"awaiting", "streaming"}

LiveSessions(c) == {sid \in SessionIds : sessions[sid].conn = c /\ Live(sid)}

SetState(sid, st) == [sessions EXCEPT ![sid].state = st]

\* The message as written by session sid
Tag(sid, m) == [m EXCEPT !.afterClose = sessions[sid].closed]

\* A close that destroys the designated stream of every connection.
HandleCloseVideoAll(c) ==
    << [i \in 1..Len(sessions) |->
           IF \E d \in VConnIds : activeStreams[d] = i
           THEN [sessions[i] EXCEPT !.state = "destroyed"] ELSE sessions[i]],
       [d \in VConnIds |-> NoSession] >>

\* handleCloseVideo: destroy the stream the map designates and delete the entry.
\* Yields the new <<sessions, activeStreams>>.
HandleCloseVideo(c) ==
    IF activeStreams[c] # NoSession
    THEN << SetState(activeStreams[c], "destroyed"),
            [activeStreams EXCEPT ![c] = NoSession] >>
    ELSE << sessions, activeStreams >>

\* History: a close was handled for every session of c that was live at that time.
MarkClosed(ss, c) ==
    [i \in 1..Len(ss) |->
        IF sessions[i].conn = c /\ Live(i) THEN [ss[i] EXCEPT !.closed = TRUE] ELSE ss[i]]

InvalidCount(c) ==
    Cardinality({i \in 1..Len(outbox[c]) : outbox[c][i].code = "INVALID_REQUEST"})

\* handleVideoConnection: the socket is open.
VideoConnect(c) ==
    /\ vws[c] = "unused"
    /\ vws' = [vws EXCEPT ![c] = "open"]
    /\ UNCHANGED <<sessions, activeStreams, outbox>>
    /\ UNCHANGED <<pathVars, filterVars, mqttVars>>

\* Error codes that answer malformed input on the video endpoint
MalformedCodes == {"INVALID_REQUEST", "INVALID_JSON", "INVALID_MESSAGE_TYPE"}

MalformedCount(c) ==
    Cardinality({i \in 1..Len(outbox[c]) :
                    outbox[c][i].code \in {"INVALID_JSON", "INVALID_MESSAGE_TYPE"}})

\* handleVideoMessage on invalid JSON (code INVALID_JSON) or on an unknown
\* message type (code INVALID_MESSAGE_TYPE): an error reply only.
VideoBadMessage(c, code) ==
    /\ vws[c] = "open"
    /\ MalformedCount(c) < MaxInvalid
    /\ outbox' = VSend(outbox, c, Msg("error", NoSession, code))
    /\ UNCHANGED <<vws, sessions, activeStreams>>
    /\ UNCHANGED <<pathVars, filterVars, mqttVars>>

\* A validation that runs after the existing stream of the connection was closed.
RequestVideoInvalidAfterClose(c) ==
    /\ vws[c] = "open"
    /\ InvalidCount(c) < MaxInvalid
    /\ outbox' = VSend(outbox, c, Msg("error", NoSession, "INVALID_REQUEST"))
    /\ sessions' = HandleCloseVideo(c)[1]
    /\ activeStreams' = HandleCloseVideo(c)[2]
    /\ UNCHANGED vws
    /\ UNCHANGED <<pathVars, filterVars, mqttVars>>

\* request_video without serial or timestamp: INVALID_REQUEST, nothing else.
RequestVideoInvalid(c) ==
    /\ vws[c] = "open"
    /\ InvalidCount(c) < MaxInvalid
    /\ outbox' = VSend(outbox, c, Msg("error", NoSession, "INVALID_REQUEST"))
    /\ UNCHANGED <<vws, sessions, activeStreams>>
    /\ UNCHANGED <<pathVars, filterVars, mqttVars>>

\* handleRequestVideo up to `await getVideoClip(...)`: an existing entry of
\* activeStreams is closed, then the request waits for the recording server.
RequestVideo(c) ==
    /\ vws[c] = "open"
    /\ Len(sessions) < MaxSessions
    /\ LET closed == HandleCloseVideo(c)
       IN /\ sessions' = Append(closed[1], NewSession(c))
          /\ activeStreams' = closed[2]
    /\ UNCHANGED <<vws, outbox>>
    /\ UNCHANGED <<pathVars, filterVars, mqttVars>>

\* getVideoClip resolves (the clip was buffered, written to the temporary file and
\* ffmpeg was spawned on it): the stream is stored, the metadata sent, the
\* listeners attached.
ClipResolved(sid) ==
    /\ sid \in SessionIds
    /\ sessions[sid].state = "awaiting"
    /\ LET c == sessions[sid].conn
       IN /\ activeStreams' = [activeStreams EXCEPT ![c] = sid]
          /\ outbox' = VSend(outbox, c, Tag(sid, Msg("video_metadata", sid, "")))
    /\ sessions' = [sessions EXCEPT ![sid].state = "streaming",
                                    ![sid].proc = "running",
                                    ![sid].temp = "present"]
    /\ UNCHANGED vws
    /\ UNCHANGED <<pathVars, filterVars, mqttVars>>

\* getVideoClip rejects: one error message with the mapped code.
ClipRejected(sid, msg) ==
    /\ sid \in SessionIds
    /\ sessions[sid].state = "awaiting"
    /\ outbox' = VSend(outbox, sessions[sid].conn,
                       Tag(sid, [Msg("error", sid, ErrorCode(msg)) EXCEPT !.text = msg]))
    /\ sessions' = SetState(sid, "failed")
    /\ UNCHANGED <<vws, activeStreams>>
    /\ UNCHANGED <<pathVars, filterVars, mqttVars>>

\* stream.on('data')
StreamData(sid) ==
    /\ sid \in SessionIds
    /\ sessions[sid].state = "streaming"
    /\ sessions[sid].frames < MaxFrames
    /\ LET c == sessions[sid].conn
       IN IF vws[c] = "open"
          THEN /\ outbox' = VSend(outbox, c,
                      Tag(sid, [Msg("frame", sid, "") EXCEPT !.seq = sessions[sid].frames + 1]))
               /\ sessions' = [sessions EXCEPT ![sid].frames = @ + 1]
               /\ UNCHANGED activeStreams
          ELSE /\ sessions' = SetState(sid, "destroyed")
               /\ activeStreams' = [activeStreams EXCEPT ![c] = NoSession]
               /\ UNCHANGED outbox
    /\ UNCHANGED vws
    /\ UNCHANGED <<pathVars, filterVars, mqttVars>>

\* stream.on('end'): ffmpeg has exited (with whatever code) and its output is drained.
StreamEnd(sid) ==
    /\ sid \in SessionIds
    /\ sessions[sid].state = "streaming"
    /\ sessions[sid].proc \in {"exited", "failed"}
    /\ LET c == sessions[sid].conn
       IN /\ outbox' = VSend(outbox, c, Tag(sid, Msg("video_complete", sid, "")))
          /\ activeStreams' = [activeStreams EXCEPT ![c] = NoSession]
    /\ sessions' = SetState(sid, "completed")
    /\ UNCHANGED vws
    /\ UNCHANGED <<pathVars, filterVars, mqttVars>>

\* ffmpeg.on('error') (the process could not be started): the temporary file is
\* unlinked and the output stream destroyed with the error, which stream.on('error')
\* reports unless the stream had been destroyed before.
StreamError(sid) ==
    /\ sid \in SessionIds
    /\ sessions[sid].proc = "running"
    /\ sessions[sid].frames = 0
    /\ sessions[sid].state \in {"streaming", "destroyed"}
    /\ LET c == sessions[sid].conn
       IN IF sessions[sid].state = "streaming"
          THEN /\ outbox' = VSend(outbox, c, Tag(sid, Msg("error", sid, "STREAM_ERROR")))
               /\ activeStreams' = [activeStreams EXCEPT ![c] = NoSession]
               /\ sessions' = [sessions EXCEPT ![sid].state = "errored",
                                               ![sid].proc = "spawnError",
                                               ![sid].temp = "deleted"]
          ELSE /\ sessions' = [sessions EXCEPT ![sid].proc = "spawnError",
                                               ![sid].temp = "deleted"]
               /\ UNCHANGED <<outbox, activeStreams>>
    /\ UNCHANGED vws
    /\ UNCHANGED <<pathVars, filterVars, mqttVars>>

\* ffmpeg.on('exit'): the process ended by itself, with code 0 (ok) or not; the
\* temporary file is unlinked.
FfmpegExit(sid, ok) ==
    /\ sid \in SessionIds
    /\ sessions[sid].proc = "running"
    /\ sessions' = [sessions EXCEPT ![sid].proc = IF ok THEN "exited" ELSE "failed",
                                    ![sid].temp = "deleted"]
    /\ UNCHANGED <<vws, activeStreams, outbox>>
    /\ UNCHANGED <<pathVars, filterVars, mqttVars>>

\* The output stream was destroyed, so nothing reads ffmpeg's stdout any more; with
\* output still to write the process blocks on the full pipe and never exits.
FfmpegStall(sid) ==
    /\ sid \in SessionIds
    /\ sessions[sid].proc = "running"
    /\ sessions[sid].state = "destroyed"
    /\ sessions' = [sessions EXCEPT ![sid].proc = "stalled"]
    /\ UNCHANGED <<vws, activeStreams, outbox>>
    /\ UNCHANGED <<pathVars, filterVars, mqttVars>>

\* close_video
CloseVideo(c) ==
    /\ vws[c] = "open"
    /\ LiveSessions(c) # {}
    /\ sessions' = MarkClosed(HandleCloseVideo(c)[1], c)
    /\ activeStreams' = HandleCloseVideo(c)[2]
    /\ UNCHANGED <<vws, outbox>>
    /\ UNCHANGED <<pathVars, filterVars, mqttVars>>

\* The video socket leaves the OPEN state; its 'close' event has not run yet.
VideoWsClosing(c) ==
    /\ vws[c] = "open"
    /\ vws' = [vws EXCEPT ![c] = "closing"]
    /\ UNCHANGED <<sessions, activeStreams, outbox>>
    /\ UNCHANGED <<pathVars, filterVars, mqttVars>>

\* ws.on('close'): cleanupVideoConnection(connectionId)
VideoCloseEvent(c) ==
    /\ vws[c] = "closing"
    /\ vws' = [vws EXCEPT ![c] = "closed"]
    /\ sessions' = MarkClosed(HandleCloseVideo(c)[1], c)
    /\ activeStreams' = HandleCloseVideo(c)[2]
    /\ UNCHANGED outbox
    /\ UNCHANGED <<pathVars, filterVars, mqttVars>>

----------------------------------------------------------------------------
(* matchesFilters on bounded inputs *)

FilterEvents ==
    [class : {"Human", "Car"}, age : 0..MaxKin, dwell : 0..MaxKin,
     dx : -1..MaxKin, dy : -1..MaxKin]

FilterInputs ==
    [classes : {ClassesUndef, ClassesList(<<>>), ClassesList(<<"Human">>),
                ClassesList(<<"Human", "Car">>), ClassesObject},
     minAge : {Undef} \cup 0..MaxKin,
     minDistance : {Undef} \cup 0..(MaxKin + 1),
     minDwell : {Undef} \cup 0..MaxKin]

\* One call of matchesFilters(fEvent, fFilters)
ApplyFilter ==
    /\ fResult = "unset"
    /\ fResult' = IF MatchesFiltersThrows(fFilters) THEN "throw"
                  ELSE IF MatchesFilters(fEvent, fFilters) THEN "accept"
                  ELSE "reject"
    /\ UNCHANGED <<fEvent, fFilters>>
    /\ UNCHANGED <<pathVars, videoVars, mqttVars>>

----------------------------------------------------------------------------
(* shouldSavePath on bounded inputs *)

\* "Drone" is a class outside the default list
IngestEvents ==
    [class : {"Human", "Car", "Drone"}, age : 0..MaxAge,
     dx : {0, 200, 300, -300}, dy : {0, 200, 300}]

\* camera.filters as stored in the directory
IngestFilters ==
    [objectTypes : {ObjectTypesUnset, ObjectTypesList(<<>>), ObjectTypesList(<<"Human">>),
                    ObjectTypesList(<<"Human", "Car">>)},
     minAge : {Undef, 0, 2, MaxAge},
     minDistance : {Undef, 0, 20, 30, 31}]

\* One call of shouldSavePath(fEvent, fFilters)
ApplyIngestFilter ==
    /\ fResult = "unset"
    /\ fResult' = IF ShouldSavePath(fEvent, fFilters) THEN "accept" ELSE "reject"
    /\ UNCHANGED <<fEvent, fFilters>>
    /\ UNCHANGED <<pathVars, videoVars, mqttVars>>

----------------------------------------------------------------------------
(* Video time window: videoService.js getVideoClip *)

\* `a || b` for a number: a supplied 0 falls back to b as well
OrElse(a, b) == IF a = Undef \/ a = 0 THEN b ELSE a

\* `a ?? b`: b only when a is undefined or null
Nullish(a, b) == IF a = Undef THEN b ELSE a

\* startTime and endTime of getVideoClip, in milliseconds since the epoch;
\* options are in seconds
ClipWindow(timestamp, options, playback) ==
    LET preTime == Nullish(options.preTime, playback.preTime)
        postTime == Nullish(options.postTime, playback.postTime)
        age == Nullish(options.age, 0)
    IN [startTime |-> timestamp - (age + preTime) * 1000,
        endTime |-> timestamp + postTime * 1000]

\* request_video messages: timestamp in milliseconds, the optional fields in seconds
WindowRequests ==
    [timestamp : {1000000, 1700000}, preTime : {Undef, 0, 5}, postTime : {Undef, 0, 10},
     age : {Undef, 0, 3}]

\* config.playback
PlaybackConfigs == [preTime : {5, 7}, postTime : {5, 12}]

NoWindow == [startTime |-> Undef, endTime |-> Undef]

\* One call of getVideoClip up to the computation of the window
ComputeWindow ==
    /\ fResult = NoWindow
    /\ fResult' = ClipWindow(fEvent.timestamp, fEvent, fFilters)
    /\ UNCHANGED <<fEvent, fFilters>>
    /\ UNCHANGED <<pathVars, videoVars, mqttVars>>

----------------------------------------------------------------------------
(* Specifications *)

InitPath ==
    /\ cameraEnabled = [s \in Serials |-> TRUE]
    /\ userAuth = [u \in Users |-> IF u = "u1" THEN {"idA"} ELSE {}]
    /\ wsState = [c \in ConnIds |-> "unused"]
    /\ connections = <<>>
    /\ nextConn = 0
    /\ pendingSubs = {}
    /\ unsubbed = NoUnsubbed
    /\ last = Quiet

InitVideo ==
    /\ vws = [c \in VConnIds |-> "unused"]
    /\ sessions = <<>>
    /\ activeStreams = [c \in VConnIds |-> NoSession]
    /\ outbox = [c \in VConnIds |-> <<>>]

InitFilterIdle ==
    /\ fEvent = [class |-> "Human", age |-> 0, dwell |-> 0, dx |-> 0, dy |-> 0]
    /\ fFilters = NoFilters
    /\ fResult = "unset"

InitMqtt ==
    /\ arrived = 0
    /\ inflight = {}
    /\ delivered = [c \in ConnIds |-> <<>>]

Init == InitPath /\ InitVideo /\ InitFilterIdle /\ InitMqtt

\* The broadcast dispatcher with several clients: handshake, subscribe (well-formed
\* and malformed), disconnect, and the ingestion handler with its fan-out.
Next ==
    \/ \E u \in Users : Handshake(u, MaxConns)
    \/ \E id \in ConnIds, req \in DispatchCameras, f \in RequestedFilters :
          SubscribeBegin(id, req, f)
    \/ \E p \in pendingSubs : SubscribeComplete(p)
    \/ \E id \in ConnIds : BadMessage(id)
    \/ \E id \in ConnIds : WsClosing(id)
    \/ \E id \in ConnIds : CloseEvent(id)
    \/ \E e \in DispatchEvents, failing \in SUBSET RegisteredIds :
          HandleMQTTMessage(e, TRUE, failing)
    \/ \E e \in DispatchEvents : HandleMQTTMessage(e, FALSE, {})

Spec == Init /\ [][Next]_vars

\* The subscription authorizer with one client, while the user store and the
\* device directory change.
NextAuth ==
    \/ \E cams \in AuthSets : UpdateUser(cams)
    \/ \E serial \in Serials, enabled \in BOOLEAN : SetCameraEnabled(serial, enabled)
    \/ \E u \in Users : Handshake(u, MaxSoloConns)
    \/ \E id \in ConnIds, req \in RequestedCameras : SubscribeBegin(id, req, NoFilters)
    \/ \E p \in pendingSubs : SubscribeComplete(p)
    \/ \E p \in pendingSubs : SubscribeFail(p)
    \/ \E id \in ConnIds : WsClosing(id)
    \/ \E id \in ConnIds : CloseEvent(id)

SpecAuth == Init /\ [][NextAuth]_vars

\* Subscribe, unsubscribe and delivery on one client.
NextUnsub ==
    \/ \E u \in Users : Handshake(u, MaxSoloConns)
    \/ \E id \in ConnIds, req \in RequestedCameras : SubscribeBegin(id, req, NoFilters)
    \/ \E p \in pendingSubs : SubscribeComplete(p)
    \/ \E id \in ConnIds, cams \in RemovedCameras : Unsubscribe(id, cams)
    \/ \E e \in PathEvents : HandleMQTTMessage(e, TRUE, {})

SpecUnsub == Init /\ [][NextUnsub]_vars

\* The video endpoint
NextVideo ==
    \/ \E c \in VConnIds : VideoConnect(c)
    \/ \E c \in VConnIds : RequestVideoInvalid(c)
    \/ \E c \in VConnIds : RequestVideo(c)
    \/ \E sid \in SessionIds : ClipResolved(sid)
    \/ \E sid \in SessionIds, msg \in ServiceErrors : ClipRejected(sid, msg)
    \/ \E sid \in SessionIds : StreamData(sid)
    \/ \E sid \in SessionIds : StreamEnd(sid)
    \/ \E sid \in SessionIds : StreamError(sid)
    \/ \E sid \in SessionIds : FfmpegExit(sid, TRUE)
    \/ \E c \in VConnIds : CloseVideo(c)
    \/ \E c \in VConnIds : VideoWsClosing(c)
    \/ \E c \in VConnIds : VideoCloseEvent(c)

SpecVideo == Init /\ [][NextVideo]_vars

\* One video connection with every outcome of the transcoding process
SoloVConns == {1}

NextTranscode ==
    \/ \E c \in SoloVConns : VideoConnect(c)
    \/ \E c \in SoloVConns : RequestVideo(c)
    \/ \E sid \in SessionIds : ClipResolved(sid)
    \/ \E sid \in SessionIds, msg \in ServiceErrors : ClipRejected(sid, msg)
    \/ \E sid \in SessionIds : StreamData(sid)
    \/ \E sid \in SessionIds : StreamEnd(sid)
    \/ \E sid \in SessionIds : StreamError(sid)
    \/ \E sid \in SessionIds, ok \in BOOLEAN : FfmpegExit(sid, ok)
    \/ \E sid \in SessionIds : FfmpegStall(sid)
    \/ \E c \in SoloVConns : CloseVideo(c)
    \/ \E c \in SoloVConns : VideoWsClosing(c)
    \/ \E c \in SoloVConns : VideoCloseEvent(c)

SpecTranscode == Init /\ [][NextTranscode]_vars

\* What the runtime guarantees to happen: the awaited getVideoClip settles (the
\* recording-server request has a timeout), a process that is not blocked exits,
\* a drained stream ends, and the 'close' event of a closing socket is delivered.
FairTranscode ==
    /\ WF_vars(\E sid \in 1..MaxSessions :
                  ClipResolved(sid) \/ \E msg \in ServiceErrors : ClipRejected(sid, msg))
    /\ WF_vars(\E sid \in 1..MaxSessions, ok \in BOOLEAN : FfmpegExit(sid, ok))
    /\ WF_vars(\E sid \in 1..MaxSessions : StreamEnd(sid))
    /\ WF_vars(\E c \in SoloVConns : VideoCloseEvent(c))

SpecTranscodeFair == SpecTranscode /\ FairTranscode

\* matchesFilters alone, on every bounded event and filter
InitFilter ==
    /\ InitPath /\ InitVideo /\ InitMqtt
    /\ fEvent \in FilterEvents
    /\ fFilters \in FilterInputs
    /\ fResult = "unset"

NextFilter == ApplyFilter

SpecFilter == InitFilter /\ [][NextFilter]_vars

\* shouldSavePath alone, on every bounded event and device filter
InitIngest ==
    /\ InitPath /\ InitVideo /\ InitMqtt
    /\ fEvent \in IngestEvents
    /\ fFilters \in IngestFilters
    /\ fResult = "unset"

NextIngest == ApplyIngestFilter

SpecIngest == InitIngest /\ [][NextIngest]_vars

\* The window computation of getVideoClip alone, on every bounded request and
\* playback configuration
InitWindow ==
    /\ InitPath /\ InitVideo /\ InitMqtt
    /\ fEvent \in WindowRequests
    /\ fFilters \in PlaybackConfigs
    /\ fResult = NoWindow

NextWindow == ComputeWindow

SpecWindow == InitWindow /\ [][NextWindow]_vars

\* Malformed input on both endpoints, next to a client with a subscription and a
\* client with a video session
NextMalformed ==
    \/ \E u \in Users : Handshake(u, MaxSoloConns)
    \/ \E id \in ConnIds, req \in DispatchCameras : SubscribeBegin(id, req, NoFilters)
    \/ \E p \in pendingSubs : SubscribeComplete(p)
    \/ \E id \in ConnIds : BadMessage(id)
    \/ \E c \in SoloVConns : VideoConnect(c)
    \/ \E c \in SoloVConns : RequestVideo(c)
    \/ \E sid \in SessionIds : ClipResolved(sid)
    \/ \E sid \in SessionIds : StreamData(sid)
    \/ \E c \in SoloVConns : RequestVideoInvalid(c)
    \/ \E c \in SoloVConns, code \in {"INVALID_JSON", "INVALID_MESSAGE_TYPE"} :
          VideoBadMessage(c, code)

SpecMalformed == Init /\ [][NextMalformed]_vars

\* The connection registry called with registered and unregistered ids; id 0 is
\* never handed out.
RegistryIds == 0..MaxConns

NextRegistry ==
    \/ \E u \in Users : Handshake(u, MaxConns)
    \/ \E id \in ConnIds, req \in DispatchCameras : SubscribeBegin(id, req, NoFilters)
    \/ \E p \in pendingSubs : SubscribeComplete(p)
    \/ \E id \in RegistryIds : RegistryRemove(id)
    \/ \E id \in RegistryIds : RegistryGet(id)

SpecRegistry == Init /\ [][NextRegistry]_vars

\* Handshakes that succeed and handshakes that fail authentication
NextHandshake ==
    \/ \E u \in Users : Handshake(u, MaxConns)
    \/ \E reason \in RejectReasons : HandshakeRejected(reason)
    \/ \E id \in ConnIds, req \in DispatchCameras : SubscribeBegin(id, req, NoFilters)
    \/ \E p \in pendingSubs : SubscribeComplete(p)
    \/ \E id \in ConnIds : WsClosing(id)
    \/ \E id \in ConnIds : CloseEvent(id)

SpecHandshake == Init /\ [][NextHandshake]_vars

\* The ingestion handler with overlapping calls, and clients that receive
OrderEvents ==
    { PathEvent("A", "Human", NoCameraId), PathEvent("A", "Car", NoCameraId),
      PathEvent("B", "Car", NoCameraId) }

NextOrder ==
    \/ \E u \in Users : Handshake(u, MaxConns)
    \/ \E e \in OrderEvents : MqttArrive(e)
    \/ \E m \in inflight : MqttLookupDone(m)
    \/ \E m \in inflight : MqttSaved(m)
    \/ \E m \in inflight : MqttSaveFailed(m)

SpecOrder == Init /\ [][NextOrder]_vars

----------------------------------------------------------------------------
(* Properties *)

\* Serial numbers of the cameras with the given _ids
SerialsOf(ids) ==
    {CameraDocs[i].serialNumber : i \in {j \in 1..Len(CameraDocs) : CameraDocs[j].id \in ids}}

EnabledSerials == {s \in Serials : cameraEnabled[s]}

\* C1: on every video connection at most one session is live (awaiting the
\* recording server or streaming) at any instant.
C1_AtMostOneLiveSession ==
    \A c \in VConnIds : Cardinality(LiveSessions(c)) <= 1

\* C2: once the video_metadata of a later session has been sent on a connection,
\* the stream of every earlier session of that connection is closed, and no binary
\* frame of an earlier session follows that metadata.
C2_EarlierClosedBeforeLaterMetadata ==
    \A c \in VConnIds : \A i \in 1..Len(outbox[c]) :
        outbox[c][i].type = "video_metadata" =>
            \A s1 \in SessionIds :
                (s1 < outbox[c][i].session /\ sessions[s1].conn = c) =>
                    /\ sessions[s1].state # "streaming"
                    /\ \A j \in (i + 1)..Len(outbox[c]) :
                          ~(outbox[c][j].type = "frame" /\ outbox[c][j].session = s1)

\* C3: the Subscription.cameras a subscribe resolves for a standard identity holds
\* only devices the identity is authorized for in the user store at the time of
\* that subscribe (when the message was received or when the lookup answered).
C3_SubscribeUsesCurrentAuthorization ==
    (last.kind = "subscribe" /\ last.user.role # "admin" /\ last.conn \in RegisteredIds) =>
        SeqToSet(GetConnection(last.conn).subscriptions.cameras)
            \subseteq SerialsOf(last.authAtReceipt \cup userAuth[last.user.id])

\* The authorized set the Subscription Authorizer is specified to return
SpecifiedAuthorized(user, R) ==
    IF user.role = "admin"
    THEN IF R = {} THEN EnabledSerials ELSE R \cap EnabledSerials
    ELSE IF R = {} THEN SerialsOf(user.authorizedCameras) \cap EnabledSerials
         ELSE R \cap SerialsOf(user.authorizedCameras) \cap EnabledSerials

C5_UnauthorizedIffDropped ==
    (/\ last.kind = "subscribe"
     /\ last.requested.kind = "list"
     /\ Len(last.requested.items) > 0
     /\ wsState[last.conn] = "open"
     /\ last.conn \in RegisteredIds) =>
        LET dropped == SeqToSet(last.requested.items) \ SeqToSet(last.authorized)
            errors == {i \in 2..Len(last.msgs) : last.msgs[i].code = "UNAUTHORIZED"}
        IN /\ last.msgs[1].type = "subscribed"
           /\ last.msgs[1].cameras = last.authorized
           /\ GetConnection(last.conn).subscriptions.cameras = last.authorized
           /\ (errors # {}) <=> (dropped # {})
           /\ \A i \in errors : SeqToSet(last.msgs[i].cameras) = dropped

\* C6: after unsubscribe{cameras: C} is acknowledged, no path event of a device in
\* C is delivered on that connection until a later subscribe message.
C6_NoDeliveryAfterUnsubscribe ==
    last.kind = "publish" =>
        \A id \in last.sent : last.event.serial \notin unsubbed[id]

\* The device check of the Broadcast Dispatcher as specified
SpecifiedDeviceCheck(conn, e) ==
    LET cameras == SeqToSet(conn.subscriptions.cameras)
    IN \/ cameras # {} /\ e.serial \in cameras
       \/ cameras = {} /\ conn.user.role = "admin"
       \/ /\ cameras = {}
          /\ conn.user.role # "admin"
          /\ e.serial \in SerialsOf(conn.user.authorizedCameras)

\* C7: in a fan-out a connection that is not writable is skipped, and a writable
\* connection (whose client-side filter accepts the event) is served exactly when
\* the specified device check passes.
C7_DeviceCheckAsSpecified ==
    (last.kind = "publish" /\ last.broadcast /\ ~last.thrown) =>
        \A i \in 1..Len(connections) :
            LET conn == connections[i]
                served == conn.id \in last.sent \cup last.failed
            IN /\ ~Writable(conn) => ~served
               /\ (Writable(conn) /\ MatchesFilters(last.event, conn.subscriptions.filters))
                     => (served <=> SpecifiedDeviceCheck(conn, last.event))

\* The acceptance criteria of the client-side filter as specified
SpecifiedFilter(e, f) ==
    /\ (f.classes.kind = "list" /\ Len(f.classes.items) > 0)
           => e.class \in SeqToSet(f.classes.items)
    /\ f.minAge # Undef => e.age >= f.minAge
    /\ f.minDwell # Undef => e.dwell >= f.minDwell
    /\ f.minDistance # Undef =>
           e.dx * e.dx + e.dy * e.dy >= f.minDistance * f.minDistance

\* C8: matchesFilters accepts an event exactly when every configured criterion
\* holds (class in the allow-list, age >= minAge, dwell >= minDwell,
\* sqrt(dx^2+dy^2) >= minDistance), zero values included.
C8_FilterAcceptsIffCriteria ==
    (fResult # "unset" /\ fFilters.classes.kind # "object") =>
        ((fResult = "accept") <=> SpecifiedFilter(fEvent, fFilters))

\* No connection up to position i of the registry makes shouldSendToClient raise
NoThrowUpTo(i, e) ==
    \A j \in 1..i : ~ShouldSendThrows(connections[j], e)

\* C9: in a fan-out, whichever sends fail, every connection that matches the event
\* and whose own send did not fail is sent the event (unless an exception other
\* than a send failure stopped the loop before it was reached).
C9_SendFailureDoesNotAbort ==
    (last.kind = "publish" /\ last.broadcast) =>
        \A i \in 1..Len(connections) :
            (/\ NoThrowUpTo(i, last.event)
             /\ ShouldSendToClient(connections[i], last.event)
             /\ connections[i].id \notin last.failed)
                => connections[i].id \in last.sent

\* A send failed on the first connection and the second one was still served.
C9_Witness ==
    /\ last.kind = "publish"
    /\ Len(connections) = 2
    /\ connections[1].id \in last.failed
    /\ connections[2].id \in last.sent

\* C10: whatever messages a client has sent, an accepted event is persisted and
\* broadcast, and whether another connection is served depends on that
\* connection's own socket, subscription and filter only.
C10_MalformedClientIsolated ==
    (last.kind = "publish" /\ last.saved) =>
        /\ last.broadcast
        /\ \A i \in 1..Len(connections) :
              LET conn == connections[i]
              IN ~MatchesFiltersThrows(conn.subscriptions.filters) =>
                    ((conn.id \in last.sent \cup last.failed)
                        <=> ShouldSendToClient(conn, last.event))

\* The connection was handed the event in the fan-out `last` records
Served(conn) == conn.id \in last.sent \cup last.failed

IngestMinAge(f) == IF f.minAge # Undef THEN f.minAge ELSE DefaultMinAge
IngestMinDistance(f) == IF f.minDistance # Undef THEN f.minDistance ELSE DefaultMinDistance

\* The device's allowed-class list; a list that is not configured is the default list
AllowedClasses(f) ==
    IF f.objectTypes.kind = "unset" THEN SeqToSet(DefaultObjectTypes)
    ELSE SeqToSet(f.objectTypes.items)

\* The three conditions of the Ingestion Filter as specified
SpecifiedAccept(e, f) ==
    /\ e.class \in AllowedClasses(f)
    /\ e.age >= IngestMinAge(f)
    /\ ~PercentBelow(e.dx * e.dx + e.dy * e.dy, IngestMinDistance(f))

\* C12: shouldSavePath accepts an event if and only if its class is in the
\* device's allowed-class list, its age is at least the device's minimum age and
\* its displacement as a percentage of the 1414.21 diagonal is at least the
\* device's minimum-distance percentage.
C12_AcceptIffThreeConditions ==
    (fResult # "unset" /\ fFilters \in IngestFilters) =>
        ((fResult = "accept") <=> SpecifiedAccept(fEvent, fFilters))

\* C13: a device whose allowed-class list is not configured is filtered with the
\* default class list, and a device whose list is configured and empty rejects
\* every event.
C13_UnsetIsDefaultEmptyRejectsAll ==
    (fResult # "unset" /\ fFilters \in IngestFilters) =>
        /\ (fFilters.objectTypes.kind = "unset" /\ fResult = "accept")
               => fEvent.class \in SeqToSet(DefaultObjectTypes)
        /\ fFilters.objectTypes = ObjectTypesList(<<>>) => fResult = "reject"

\* C14: an event the Ingestion Filter rejects, or whose device the directory does
\* not know, is never persisted and never broadcast; an event is handed to the
\* dispatcher only after it was accepted and its save succeeded.
C14_OnlyAcceptedAndPersistedIsBroadcast ==
    last.kind = "publish" =>
        /\ last.saved =>
               /\ last.event.serial \in Serials
               /\ ShouldSavePath(last.event, CameraFilters(last.event.serial))
        /\ last.broadcast => last.saved
        /\ ~last.broadcast => (last.sent = {} /\ last.failed = {})

\* A known device's event was rejected by the device's filter while a client that
\* would have matched it was connected: nothing was saved, nobody was served.
C14_Witness ==
    /\ last.kind = "publish"
    /\ last.known /\ ~last.accepted
    /\ ~last.saved /\ last.sent = {}
    /\ \E i \in 1..Len(connections) : ShouldSendToClient(connections[i], last.event)

\* The video_metadata, binary frames and video_complete session sid wrote, in the
\* order they went onto its connection
SessionMsgs(sid) ==
    SelectSeq(outbox[sessions[sid].conn],
              LAMBDA m : m.session = sid /\ m.type \in {"video_metadata", "frame", "video_complete"})

\* C15: what a session writes starts with its one video_metadata, continues with
\* the binary frames in the order the blocks were produced (block k is the k-th
\* frame), and video_complete, if written, is the last; no frame precedes the
\* metadata or follows video_complete.
C15_MetadataFramesComplete ==
    \A sid \in SessionIds :
        LET ms == SessionMsgs(sid)
        IN Len(ms) > 0 =>
              /\ ms[1].type = "video_metadata"
              /\ \A i \in 2..Len(ms) :
                    \/ ms[i].type = "frame" /\ ms[i].seq = i - 1
                    \/ ms[i].type = "video_complete" /\ i = Len(ms)

\* A session delivered its metadata, every block and video_complete.
C15_Witness ==
    \E sid \in SessionIds :
        /\ Len(SessionMsgs(sid)) = MaxFrames + 2
        /\ SessionMsgs(sid)[MaxFrames + 2].type = "video_complete"
        /\ sessions[sid].state = "completed"

\* C16: once a close_video or the close of the connection has been handled for a
\* session, no video_metadata, binary frame or video_complete of that session is
\* written, whether the session was awaiting the recording server or streaming.
C16_NothingEmittedAfterClose ==
    \A c \in VConnIds : \A i \in 1..Len(outbox[c]) :
        outbox[c][i].afterClose =>
            outbox[c][i].type \notin {"video_metadata", "frame", "video_complete"}

\* C17: after the close of a connection no request of that connection is still
\* waiting for the recording server and no ffmpeg process started for it is
\* still alive.
C17_CloseTerminatesRequestAndProcess ==
    \A sid \in SessionIds :
        vws[sessions[sid].conn] = "closed" =>
            /\ sessions[sid].state # "awaiting"
            /\ sessions[sid].proc \notin {"running", "stalled"}

TempPresent(sid) == sid \in SessionIds /\ sessions[sid].temp = "present"
TempDeleted(sid) == sid \in SessionIds /\ sessions[sid].temp = "deleted"

\* C18: every temporary file the transcode pipeline creates is eventually deleted,
\* whichever way the session ends.
C18_TempFileEventuallyDeleted ==
    \A sid \in 1..MaxSessions : TempPresent(sid) ~> TempDeleted(sid)


ErrorsOf(sid) ==
    {i \in 1..Len(outbox[sessions[sid].conn]) :
        /\ outbox[sessions[sid].conn][i].session = sid
        /\ outbox[sessions[sid].conn][i].type = "error"}

\* The session failed while it was requesting or streaming: getVideoClip
\* rejected, the stream raised an error, or ffmpeg exited with a failure code
\* and its truncated output has been read to the end.
FailedInFlight(sid) ==
    \/ sessions[sid].state \in {"failed", "errored"}
    \/ sessions[sid].proc = "failed" /\ sessions[sid].state = "completed"

\* C19: a session that fails while requesting or streaming writes exactly one
\* error message (when its socket is open), is torn down, and never writes
\* video_complete.
C19_FailureIsOneErrorNoComplete ==
    \A sid \in SessionIds :
        /\ Cardinality(ErrorsOf(sid)) <= 1
        /\ FailedInFlight(sid) =>
              /\ \A i \in 1..Len(SessionMsgs(sid)) : SessionMsgs(sid)[i].type # "video_complete"
              /\ vws[sessions[sid].conn] = "open" =>
                    (Cardinality(ErrorsOf(sid)) = 1 /\ ~Live(sid))

\* C20: a recording-server failure reaches the client with the documented code:
\* no recording -> VIDEO_NOT_FOUND; server error, unreachable server and
\* timeout -> RECORDING_SERVER_ERROR.
C20_RecordingServerErrorCodes ==
    \A c \in VConnIds : \A i \in 1..Len(outbox[c]) :
        LET m == outbox[c][i]
        IN m.type = "error" =>
              /\ m.text = "VIDEO_NOT_FOUND" => m.code = "VIDEO_NOT_FOUND"
              /\ m.text \in {"RECORDING_SERVER_ERROR", "RECORDING_SERVER_UNREACHABLE",
                             "REQUEST_TIMEOUT"} => m.code = "RECORDING_SERVER_ERROR"


\* The value a request uses for an optional field: the supplied one, else the fallback
Supplied(x, fallback) == IF x # Undef THEN x ELSE fallback

\* C21: the window of a video request is start = timestamp - (age + preTime) s and
\* end = timestamp + postTime s, with preTime and postTime taken from the system
\* configuration when not supplied (a supplied 0 is kept) and age 0 when not supplied.
C21_WindowAsSpecified ==
    fResult # NoWindow =>
        LET preTime == Supplied(fEvent.preTime, fFilters.preTime)
            postTime == Supplied(fEvent.postTime, fFilters.postTime)
            age == Supplied(fEvent.age, 0)
        IN /\ fResult.startTime = fEvent.timestamp - 1000 * age - 1000 * preTime
           /\ fResult.endTime = fEvent.timestamp + 1000 * postTime

\* The request with preTime=5, postTime=10, age=3 got start = T - 8 s, end = T + 10 s.
C21_Witness ==
    /\ fResult # NoWindow
    /\ fEvent.preTime = 5 /\ fEvent.postTime = 10 /\ fEvent.age = 3
    /\ fResult.startTime = fEvent.timestamp - 8000
    /\ fResult.endTime = fEvent.timestamp + 10000


\* A step in which the path endpoint answered invalid JSON or an unknown type
PathMalformedStep == last' # last /\ last'.kind = "badMessage"

\* A step in which the video endpoint answered malformed input on connection c
VideoMalformedStep(c) ==
    /\ Len(outbox'[c]) = Len(outbox[c]) + 1
    /\ outbox'[c][Len(outbox'[c])].code \in MalformedCodes

\* C22: malformed client input on either endpoint (invalid JSON, unknown message
\* type, request_video without serial or timestamp) yields an error message only:
\* every socket keeps its state and every Subscription, pending subscribe and
\* VideoSession is left as it was.
C22_MalformedInputOnlyErrors ==
    [][(PathMalformedStep \/ \E c \in VConnIds : VideoMalformedStep(c)) =>
          /\ wsState' = wsState /\ vws' = vws
          /\ connections' = connections /\ pendingSubs' = pendingSubs
          /\ sessions' = sessions /\ activeStreams' = activeStreams]_vars

\* Malformed input was answered on both endpoints while the path client held a
\* subscription and the video client an active stream.
C22_Witness ==
    /\ last.kind = "badMessage"
    /\ wsState[last.conn] = "open"
    /\ last.conn \in RegisteredIds
    /\ GetConnection(last.conn).subscriptions.cameras # <<>>
    /\ \E c \in VConnIds :
          /\ vws[c] = "open"
          /\ activeStreams[c] # NoSession
          /\ sessions[activeStreams[c]].state = "streaming"
          /\ Len(outbox[c]) > 1
          /\ outbox[c][Len(outbox[c])].code \in MalformedCodes


\* C23: remove(id) is idempotent: after it the id is absent and a further remove
\* would change nothing; a remove of an id that was absent leaves the registry as
\* it was; get(id) never changes the registry and yields absent for an absent id
\* and the registered entry otherwise.
C23_RemoveIdempotentGetPure ==
    /\ last.kind = "remove" =>
          /\ last.id \notin RegisteredIds
          /\ RemoveConnection(last.id) = connections
          /\ ~last.removed => connections = last.before
          /\ last.removed =>
                connections = SelectSeq(last.before, LAMBDA c : c.id # last.id)
    /\ last.kind = "get" =>
          /\ connections = last.before
          /\ last.id \notin RegisteredIds => last.result = Absent
          /\ last.id \in RegisteredIds => last.result.id = last.id

\* An id that is not registered was removed while two connections were registered.
C23_Witness ==
    /\ last.kind = "remove"
    /\ ~last.removed
    /\ Len(last.before) = 2


\* C24: a handshake that fails authentication registers no connection, and a
\* disabled account is refused with a code different from the one an invalid or
\* missing token gets.
C24_DisabledDistinctFromInvalidToken ==
    last.kind = "rejected" =>
        /\ connections = last.before
        /\ last.reason = "Account is disabled" =>
              /\ last.status # RejectStatus("invalid token")
              /\ last.status # RejectStatus("No token provided")


\* What the video endpoint holds for connection d: its socket, its entry of
\* activeStreams, its sessions and the messages written to it
VideoStateOf(d) ==
    << vws[d], activeStreams[d], outbox[d],
       [sid \in {i \in SessionIds : sessions[i].conn = d} |-> sessions[sid]] >>

\* C25: every step of the video endpoint (request_video, close_video, a frame, a
\* stream error, completion, connection close, ...) concerns one connection and
\* leaves the sessions, the activeStreams entry, the socket and the message
\* stream of every other connection unchanged.
C25_VideoConnectionsIndependent ==
    [][\E c \in VConnIds : \A d \in VConnIds \ {c} : VideoStateOf(d)' = VideoStateOf(d)]_vars

\* The session of one connection was destroyed (close_video, connection close or
\* an unwritable socket) while the session of another connection streams on.
C25_Witness ==
    \E s1, s2 \in SessionIds :
        /\ sessions[s1].conn # sessions[s2].conn
        /\ sessions[s1].state = "destroyed"
        /\ sessions[s2].state = "streaming"
        /\ sessions[s2].frames > 0
        /\ activeStreams[sessions[s2].conn] = s2


\* A step in which the data listener of session sid finds its socket not open:
\* the stream leaves "streaming" for "destroyed" while the socket, already
\* unwritable, stays as it is (a close_video or a new request needs an open
\* socket, and the close event changes the socket's state).
UnwritableStep(sid) ==
    /\ sid \in SessionIds
    /\ vws[sessions[sid].conn] # "open"
    /\ vws' = vws
    /\ sessions[sid].state = "streaming"
    /\ sessions'[sid].state = "destroyed"

\* C26: when the streamer finds the connection unwritable it sends no frame, stops
\* reading the transcoder's output (the stream is destroyed and no longer the
\* connection's active stream) and releases the transcoding process: the process
\* is not left running.
C26_UnwritableReleasesPipeline ==
    [][\A sid \in 1..MaxSessions :
          UnwritableStep(sid) =>
              /\ outbox' = outbox
              /\ activeStreams'[sessions[sid].conn] = NoSession
              /\ sessions'[sid].proc # "running"]_vars


\* The connection was registered and its close event has removed it
Removed(id) == wsState[id] = "closed" /\ id \notin RegisteredIds

\* C27: a connection removed from the registry on disconnect never reappears in
\* it, also when a subscribe of that connection completes its directory lookup
\* after the removal, and no publish after the removal hands it an event.
C27_RemovedConnectionStaysRemoved ==
    [][/\ \A id \in ConnIds : Removed(id) => Removed(id)'
       /\ (last' # last /\ last'.kind = "publish") =>
              \A id \in ConnIds : Removed(id) => id \notin last'.sent \cup last'.failed]_vars

\* A subscribe completed its lookup after its connection had been removed.
C27_Witness ==
    /\ last.kind = "subscribe"
    /\ Removed(last.conn)
    /\ Len(last.authorized) > 0


\* C28: the Subscription of a connection is what applying its subscribe and
\* unsubscribe messages in the order received gives. When a subscribe has
\* completed, the device set is the one it resolved less the devices of the
\* unsubscribe messages received after it; and with no lookup outstanding, no
\* device unsubscribed since the last subscribe message is in the set.
C28_MessagesAppliedInOrderReceived ==
    /\ (last.kind = "subscribe" /\ last.conn \in RegisteredIds) =>
          GetConnection(last.conn).subscriptions.cameras =
              SelectSeq(last.authorized, LAMBDA c : c \notin unsubbed[last.conn])
    /\ pendingSubs = {} =>
          \A i \in 1..Len(connections) :
              SeqToSet(connections[i].subscriptions.cameras)
                  \cap unsubbed[connections[i].id] = {}


\* C29: every stream of a connection that can still write to it (a session in
\* state "streaming") is the one the connection's activeStreams entry designates,
\* so close_video and the connection's close reach it: no handler of another
\* session has removed or replaced its entry.
C29_EntryDesignatesEveryWritingStream ==
    \A sid \in SessionIds :
        sessions[sid].state = "streaming" => activeStreams[sessions[sid].conn] = sid


\* C30: on every connection the path events of one device are delivered in the
\* order in which their messages arrived from the ingestion transport.
C30_DeviceEventsInArrivalOrder ==
    \A c \in ConnIds : \A i, j \in 1..Len(delivered[c]) :
        (i < j /\ delivered[c][i].serial = delivered[c][j].serial) =>
            delivered[c][i].seq < delivered[c][j].seq

====
